---- MODULE Spec2Model ----
(***************************************************************************)
(* Cratographer: a symbol query layer over a semantic analysis engine.     *)
(*                                                                         *)
(*   src/src/analyzer.rs  Analyzer (load_project, find_symbol,             *)
(*                        enumerate_file), convert_symbol_kind             *)
(*   src/src/main.rs      CratographerServer (new, find_symbol and         *)
(*                        enumerate_file tools behind Arc<Mutex<Analyzer>>)*)
(*                                                                         *)
(* Four specifications share the variables:                                *)
(*   Spec        the server process: new(), then concurrent tool calls     *)
(*   SpecFacade  one Analyzer driven by a sequential caller                *)
(*   SpecSearch  find_symbol applied once to a loaded session whose symbol *)
(*               index is drawn from a bounded family                      *)
(*   SpecEnum    enumerate_file applied once to a loaded session whose     *)
(*               source file is drawn from a bounded family                *)
(*                                                                         *)
(* The analysis engine (ra_ap_ide, ra_ap_vfs, ra_ap_load_cargo) is an      *)
(* external collaborator.  It is modelled by the contract the callers in  *)
(* analyzer.rs rely on; the order of its answers is an input.              *)
(***************************************************************************)
EXTENDS Integers, Sequences, FiniteSets, TLC

VARIABLES analyzer, lastCall, mainPc, mutex, pc, req, resp, touched

vars == <<analyzer, lastCall, mainPc, mutex, pc, req, resp, touched>>

serverVars == <<mainPc, mutex, pc, req, resp, touched>>

-----------------------------------------------------------------------------
(* Bounds *)

\* longest free part of a generated symbol index (SpecSearch)
MaxTail == 2

\* most top-level declarations of a generated source file (SpecEnum)
MaxDecls == 3

\* number of concurrently running tool invocations (Spec)
NumTasks == 2

\* analyzer.rs:175  analysis.symbol_search(query, 32)
SearchLimit == 32

-----------------------------------------------------------------------------
(* Generic helpers *)

NoArg == "<none>"

Take(s, n) == IF Len(s) <= n THEN s ELSE SubSeq(s, 1, n)

Range(s) == {s[i] : i \in 1..Len(s)}

IsPrefix(p, s) == Len(p) <= Len(s) /\ SubSeq(s, 1, Len(p)) = p

RECURSIVE IsSubsequence(_, _)
IsSubsequence(p, s) ==
    IF p = <<>> THEN TRUE
    ELSE IF s = <<>> THEN FALSE
    ELSE IF Head(p) = Head(s) THEN IsSubsequence(Tail(p), Tail(s))
    ELSE IsSubsequence(p, Tail(s))

Ok(v) == [tag |-> "Ok", val |-> v, err |-> "-"]

Err(e) == [tag |-> "Err", val |-> <<>>, err |-> e]

Panic(m) == [tag |-> "Panic", val |-> <<>>, err |-> m]

-----------------------------------------------------------------------------
(* Query option model: analyzer.rs:13-48 *)

SearchMode == {"Exact", "Fuzzy", "Prefix"}

SymbolFilter == {"Types", "Implementations", "Functions", "All"}

SearchOptions == [mode : SearchMode, include_library : BOOLEAN, filter : SymbolFilter]

\* analyzer.rs:335-346
SymbolKind == {"Const", "Enum", "Function", "Impl", "Method", "Module",
               "Static", "Struct", "Trait", "TypeAlias"}

\* members of the engine's SymbolKind that the model's indexes use
RaSymbolKind == SymbolKind \cup {"Union", "TraitAlias", "Macro", "Field", "Variant"}

\* analyzer.rs:306-320: Some(kind) as <<kind>>, None as <<>>
convert_symbol_kind(kind) ==
    CASE kind = "Const"     -> <<"Const">>
      [] kind = "Enum"      -> <<"Enum">>
      [] kind = "Function"  -> <<"Function">>
      [] kind = "Impl"      -> <<"Impl">>
      [] kind = "Method"    -> <<"Method">>
      [] kind = "Module"    -> <<"Module">>
      [] kind = "Static"    -> <<"Static">>
      [] kind = "Struct"    -> <<"Struct">>
      [] kind = "Trait"     -> <<"Trait">>
      [] kind = "TypeAlias" -> <<"TypeAlias">>
      [] OTHER              -> <<>>

-----------------------------------------------------------------------------
(* Analysis engine: the session's database and path table.                 *)
(* A name is a sequence of tokens, a path a sequence of components whose   *)
(* first component is "/" exactly when the path is absolute.               *)

IsAbsolute(path) == Len(path) > 0 /\ path[1] = "/"

\* a symbol of the engine's index: the NavigationTarget fields find_symbol
\* reads (analyzer.rs:183-228), and lib, the source root it lives in
RawSymbol(name, kind, lib, file_id, range, docs) ==
    [name |-> name, kind |-> kind, lib |-> lib, file_id |-> file_id,
     full_range |-> range, docs |-> docs]

\* a node of ra_ap_ide::StructureNode: the fields enumerate_file reads
\* (analyzer.rs:273-285); variant is SymbolKind, ExternBlock or Region.
\* parent is the position of the enclosing node in the engine's flat list, 0
\* for a top-level declaration; enumerate_file does not read it.
RawNode(label, variant, kind, range, detail, parent) ==
    [label |-> label, variant |-> variant, kind |-> kind,
     node_range |-> range, detail |-> detail, parent |-> parent]

\* analyzer.rs:96-101  Analyzer::new(): empty database, empty path table
EmptyDb ==
    [load |-> "none", libs_scope |-> "libraries", symbols |-> <<>>,
     structure |-> <<>>, text |-> <<>>]

EmptyVfs == [load |-> "none", files |-> <<>>]

NewAnalyzer == [host |-> EmptyDb, vfs |-> EmptyVfs]

\* ra_ap_ide::Query modes (analyzer.rs:157-161): how a symbol name is
\* matched against the query string
NameMatches(mode, query, name) ==
    CASE mode = "Exact"  -> name = query
      [] mode = "Prefix" -> IsPrefix(query, name)
      [] mode = "Fuzzy"  -> IsSubsequence(query, name)

\* kinds that survive Query::only_types (analyzer.rs:169-171): type definitions
EngineTypeKinds == {"Struct", "Enum", "Union", "Trait", "TraitAlias", "TypeAlias"}

\* BuildQuery that restricts the engine to types under filter All as well
BuildQueryTypesForAll(name, options) ==
    [query |-> name, mode |-> options.mode, libs |-> options.include_library,
     only_types |-> (options.filter \in {"Types", "All"})]

\* BuildQuery that never asks for the libraries
BuildQueryNoLibs(name, options) ==
    [query |-> name, mode |-> options.mode, libs |-> FALSE,
     only_types |-> (options.filter = "Types")]

\* BuildQuery without the match on options.mode: every query is a fuzzy one
BuildQueryFuzzy(name, options) ==
    [query |-> name, mode |-> "Fuzzy", libs |-> options.include_library,
     only_types |-> (options.filter = "Types")]

\* analyzer.rs:154-171: the query built from name and options
BuildQuery(name, options) ==
    [query |-> name, mode |-> options.mode, libs |-> options.include_library,
     only_types |-> (options.filter = "Types")]

\* what Query::libs (analyzer.rs:165) makes the engine search is decided by
\* the engine, not by this repository: the library roots in addition to the
\* workspace roots, or the library roots instead of them.  A database carries
\* the behaviour of the engine that built it.
LibsScopes == {"workspace_and_libraries", "libraries"}

InScope(db, q, sym) ==
    IF ~q.libs THEN ~sym.lib
    ELSE IF db.libs_scope = "libraries" THEN sym.lib
    ELSE TRUE

\* does a symbol of the index answer the query: scope, kind restriction,
\* name match
QueryAccepts(db, q, sym) ==
    /\ InScope(db, q, sym)
    /\ (q.only_types => sym.kind \in EngineTypeKinds)
    /\ NameMatches(q.mode, q.query, sym.name)

\* every symbol of the index that answers the query, in the index's order
Matches(db, q) == SelectSeq(db.symbols, LAMBDA sym : QueryAccepts(db, q, sym))

\* analyzer.rs:175  Analysis::symbol_search(query, limit): the matches in the
\* index's order, cut to the limit
symbol_search(db, q, limit) == Take(Matches(db, q), limit)

\* ra_ap_vfs::Vfs::file_id (analyzer.rs:252): the identifier of an indexed
\* real path, 0 when the path is not in the table
VfsFileId(vfs, path) ==
    LET hits == {i \in 1..Len(vfs.files) :
                    ~vfs.files[i].virtual /\ vfs.files[i].path = path}
    IN IF hits = {} THEN 0 ELSE CHOOSE i \in hits : \A j \in hits : i <= j

\* analyzer.rs:212-215  vfs.file_path(file_id).as_path(), else the
\* debug-formatted identifier
PathStr(vfs, file_id) ==
    IF file_id \in 1..Len(vfs.files) /\ ~vfs.files[file_id].virtual
    THEN vfs.files[file_id].path
    ELSE <<"FileId(", ToString(file_id), ")">>

\* ra_ap_ide::LineIndex::line_col(offset).line (analyzer.rs:219-222, 265-277):
\* a text is what LineIndex::new keeps of it, the offsets at which the lines
\* after the first one start; the 0-based line of an offset is the number of
\* line starts at or before it
LineOf(text, offset) == Cardinality({k \in 1..Len(text) : text[k] <= offset})

FileText(db, file_id) ==
    IF file_id \in 1..Len(db.text) THEN db.text[file_id] ELSE <<>>

-----------------------------------------------------------------------------
(* Symbol Catalog Facade: analyzer.rs:94-296 *)

\* analyzer.rs:183  nav.kind.unwrap_or(RaSymbolKind::Module)
UnwrapOrModule(kind) == IF kind = "None" THEN "Module" ELSE kind

\* PassesFilter without the Implementations and Functions arms
PassesFilterNone(filter, kind) == TRUE

\* analyzer.rs:186-206: the post-search filter on the converted kind
PassesFilter(filter, kind) ==
    CASE filter = "Types"           -> TRUE
      [] filter = "Implementations" -> kind = "Impl"
      [] filter = "Functions"       -> kind \in {"Function", "Method"}
      [] filter = "All"             -> TRUE

\* analyzer.rs:218-225: the entry's lines, (0, 0) when the text is not retrieved
SymbolLines(db, nav, text_canceled) ==
    IF text_canceled THEN <<0, 0>>
    ELSE <<LineOf(FileText(db, nav.file_id), nav.full_range[1]),
           LineOf(FileText(db, nav.file_id), nav.full_range[2])>>

\* ConvertNav that drops an entry whose path or text is not available
ConvertNavStrict(a, options, text_canceled, nav) ==
    LET kind == convert_symbol_kind(UnwrapOrModule(nav.kind))
        lines == SymbolLines(a.host, nav, text_canceled)
    IN IF kind = <<>> THEN <<>>
       ELSE IF ~PassesFilter(options.filter, kind[1]) THEN <<>>
       ELSE IF text_canceled \/ a.vfs.files[nav.file_id].virtual THEN <<>>
       ELSE << [name |-> nav.name, kind |-> kind[1],
                file_path |-> PathStr(a.vfs, nav.file_id),
                start_line |-> lines[1], end_line |-> lines[2],
                documentation |-> nav.docs] >>

\* analyzer.rs:181-238: the closure of filter_map, <<>> for a dropped entry
ConvertNav(a, options, text_canceled, nav) ==
    LET kind == convert_symbol_kind(UnwrapOrModule(nav.kind))
        lines == SymbolLines(a.host, nav, text_canceled)
    IN IF kind = <<>> THEN <<>>
       ELSE IF ~PassesFilter(options.filter, kind[1]) THEN <<>>
       ELSE << [name |-> nav.name, kind |-> kind[1],
                file_path |-> PathStr(a.vfs, nav.file_id),
                start_line |-> lines[1], end_line |-> lines[2],
                documentation |-> nav.docs] >>

RECURSIVE ConvertNavs(_, _, _, _)
\* analyzer.rs:179-239  into_iter().filter_map(..).collect()
ConvertNavs(a, options, text_canceled, navs) ==
    IF navs = <<>> THEN <<>>
    ELSE ConvertNav(a, options, text_canceled, Head(navs))
            \o ConvertNavs(a, options, text_canceled, Tail(navs))

\* analyzer.rs:150-242  Analyzer::find_symbol; eng is what the engine answers
\* to this call: search_canceled, text_canceled
FindSymbol(a, name, options, eng) ==
    IF eng.search_canceled THEN Err("Canceled")
    ELSE Ok(ConvertNavs(a, options, eng.text_canceled,
                        symbol_search(a.host, BuildQuery(name, options), SearchLimit)))

\* ConvertNode that keeps top-level declarations only
ConvertNodeTopLevel(text, file_path, node) ==
    IF node.variant = "SymbolKind" /\ node.parent = 0
    THEN LET kind == convert_symbol_kind(node.kind)
         IN IF kind = <<>> THEN <<>>
            ELSE << [name |-> node.label, kind |-> kind[1],
                     file_path |-> file_path,
                     start_line |-> LineOf(text, node.node_range[1]),
                     end_line |-> LineOf(text, node.node_range[2]),
                     documentation |-> node.detail] >>
    ELSE <<>>

\* how many requests of each kind a facade call sent to the engine
Requests(searches, structures, texts) ==
    [symbol_search |-> searches, file_structure |-> structures, file_text |-> texts]

\* FindSymbolRequests of a find_symbol that searches once more after a
\* cancelled search
FindSymbolRequestsRetry(eng, result) ==
    IF eng.search_canceled THEN Requests(2, 0, 0)
    ELSE Requests(1, 0, Len(result.val))

\* analyzer.rs:175-176, 218: the engine requests of a find_symbol call that
\* returned result: one symbol_search, after which ? returns on cancellation,
\* else one file_text for every entry the closure keeps
FindSymbolRequests(eng, result) ==
    IF eng.search_canceled THEN Requests(1, 0, 0)
    ELSE Requests(1, 0, Len(result.val))

\* analyzer.rs:270-291: the closure of filter_map over the structure nodes
ConvertNode(text, file_path, node) ==
    IF node.variant = "SymbolKind"
    THEN LET kind == convert_symbol_kind(node.kind)
         IN IF kind = <<>> THEN <<>>
            ELSE << [name |-> node.label, kind |-> kind[1],
                     file_path |-> file_path,
                     start_line |-> LineOf(text, node.node_range[1]),
                     end_line |-> LineOf(text, node.node_range[2]),
                     documentation |-> node.detail] >>
    ELSE <<>>

RECURSIVE ConvertNodesReversed(_, _, _)
\* ConvertNodes that collects the entries last node first
ConvertNodesReversed(text, file_path, nodes) ==
    IF nodes = <<>> THEN <<>>
    ELSE ConvertNodesReversed(text, file_path, Tail(nodes))
            \o ConvertNode(text, file_path, Head(nodes))

RECURSIVE ConvertNodes(_, _, _)
\* analyzer.rs:268-292  into_iter().filter_map(..).collect()
ConvertNodes(text, file_path, nodes) ==
    IF nodes = <<>> THEN <<>>
    ELSE ConvertNode(text, file_path, Head(nodes))
            \o ConvertNodes(text, file_path, Tail(nodes))

\* analyzer.rs:247-295  Analyzer::enumerate_file; AbsPathBuf::assert panics
\* on a path that is not absolute (analyzer.rs:249)
EnumerateFile(a, file_path, eng) ==
    IF ~IsAbsolute(file_path) THEN Panic("expected absolute path")
    ELSE LET file_id == VfsFileId(a.vfs, file_path)
         IN IF file_id = 0 THEN Err("Other(File not found in VFS)")
            ELSE IF eng.structure_canceled THEN Err("Canceled")
            ELSE IF eng.text_canceled THEN Err("Canceled")
            ELSE Ok(ConvertNodes(FileText(a.host, file_id), file_path,
                                 a.host.structure[file_id]))

\* analyzer.rs:249-264: the engine requests of an enumerate_file call: none
\* before the path is resolved, then file_structure, then file_text, each
\* followed by ? on cancellation
EnumerateFileRequests(a, file_path, eng) ==
    IF ~IsAbsolute(file_path) THEN Requests(0, 0, 0)
    ELSE IF VfsFileId(a.vfs, file_path) = 0 THEN Requests(0, 0, 0)
    ELSE IF eng.structure_canceled THEN Requests(0, 1, 0)
    ELSE Requests(0, 1, 1)

-----------------------------------------------------------------------------
(* The file system and the projects the engine can load *)

Analyzer_ == <<"Analyzer">>

AnalyzerError_ == <<"Analyzer", "Error">>

HashMap_ == <<"Hash", "Map">>

NoDoc == "<no doc>"

\* what a path is on disk: nothing, a directory whose name is not UTF-8, a
\* directory without a manifest, a manifest whose workspace does not load,
\* or a loadable project
PathKind(path) ==
    CASE path = "/missing" -> "missing"
      [] path = "/nonutf8" -> "non_utf8"
      [] path = "/empty"   -> "no_manifest"
      [] path = "/broken"  -> "broken_workspace"
      [] path = "/projA"   -> "project"
      [] path = "/projB"   -> "project"

DiskPaths == {"/missing", "/nonutf8", "/empty", "/broken", "/projA", "/projB"}

SourceA == <<"/", "projA", "src", "analyzer.rs">>

SourceB == <<"/", "projB", "src", "main.rs">>

StdCollections == <<"/", "registry", "std", "collections.rs">>

VfsFile(path, virtual) == [path |-> path, virtual |-> virtual]

\* path table of a loaded project: a workspace file, a library file and a
\* file without a real path
ProjectVfs(path) ==
    IF path = "/projA"
    THEN [load |-> path,
          files |-> << VfsFile(SourceA, FALSE), VfsFile(StdCollections, FALSE),
                       VfsFile(<<"virtual">>, TRUE) >>]
    ELSE [load |-> path, files |-> << VfsFile(SourceB, FALSE) >>]

\* database of a loaded project: the symbol index in the engine's order, the
\* structure nodes of each file in declaration order, each file's text
ProjectDb(path) ==
    IF path = "/projA"
    THEN [load |-> path, libs_scope |-> "libraries",
          symbols |-> <<
            RawSymbol(Analyzer_, "Struct", FALSE, 1, <<4, 11>>, "analyzer doc"),
            RawSymbol(AnalyzerError_, "Enum", FALSE, 1, <<0, 3>>, NoDoc),
            RawSymbol(Analyzer_, "Impl", FALSE, 1, <<12, 19>>, NoDoc),
            RawSymbol(Analyzer_, "Module", FALSE, 1, <<0, 23>>, NoDoc),
            RawSymbol(HashMap_, "Struct", TRUE, 2, <<0, 4>>, "hash map doc"),
            RawSymbol(HashMap_, "Macro", TRUE, 2, <<5, 9>>, NoDoc),
            RawSymbol(HashMap_, "None", FALSE, 3, <<3, 5>>, NoDoc) >>,
          structure |-> <<
            << RawNode(AnalyzerError_, "SymbolKind", "Enum", <<0, 3>>, NoDoc, 0),
               RawNode(<<"Canceled">>, "SymbolKind", "Variant", <<1, 2>>, NoDoc, 1),
               RawNode(Analyzer_, "SymbolKind", "Struct", <<4, 11>>, NoDoc, 0),
               RawNode(<<"host">>, "SymbolKind", "Field", <<5, 6>>, "AnalysisHost", 3),
               RawNode(<<"region">>, "Region", "-", <<8, 9>>, NoDoc, 0),
               RawNode(<<"impl", "Analyzer">>, "SymbolKind", "Impl", <<12, 19>>, NoDoc, 0),
               RawNode(<<"new">>, "SymbolKind", "Function", <<13, 15>>, "fn() -> Self", 6),
               RawNode(<<"load_project">>, "SymbolKind", "Method", <<16, 18>>, NoDoc, 6),
               RawNode(<<"extern">>, "ExternBlock", "-", <<20, 21>>, NoDoc, 0) >>,
            << RawNode(HashMap_, "SymbolKind", "Struct", <<0, 4>>, NoDoc, 0) >>,
            << >> >>,
          text |-> << <<4, 8, 12, 16, 20>>, <<5>>, <<3>> >>]
    ELSE [load |-> path, libs_scope |-> "workspace_and_libraries",
          symbols |-> <<
            RawSymbol(<<"main">>, "Function", FALSE, 1, <<0, 2>>, NoDoc),
            RawSymbol(Analyzer_, "Function", FALSE, 1, <<3, 5>>, NoDoc) >>,
          structure |-> <<
            << RawNode(<<"main">>, "SymbolKind", "Function", <<0, 2>>, NoDoc, 0),
               RawNode(Analyzer_, "SymbolKind", "Function", <<3, 5>>, NoDoc, 0) >> >>,
          text |-> << <<3>> >>]

\* analyzer.rs:133-138  load_workspace_at: manifest discovery and workspace
\* loading; every failure is one error value of the loader
load_workspace_at(path) ==
    IF PathKind(path) = "project"
    THEN Ok([db |-> ProjectDb(path), vfs |-> ProjectVfs(path)])
    ELSE Err(PathKind(path))

\* LoadProject that drops the old session before the loader has succeeded
LoadProjectClearing(a, path) ==
    IF PathKind(path) \in {"missing", "non_utf8"}
    THEN [res |-> Err("ManifestNotFound"), analyzer |-> a]
    ELSE LET loaded == load_workspace_at(path)
         IN IF loaded.tag = "Err"
            THEN [res |-> Err("ProjectLoadError"), analyzer |-> NewAnalyzer]
            ELSE [res |-> Ok(<<>>),
                  analyzer |-> [host |-> loaded.val.db, vfs |-> loaded.val.vfs]]

\* LoadProject that replaces the database and keeps the old path table
LoadProjectHostOnly(a, path) ==
    IF PathKind(path) \in {"missing", "non_utf8"}
    THEN [res |-> Err("ManifestNotFound"), analyzer |-> a]
    ELSE LET loaded == load_workspace_at(path)
         IN IF loaded.tag = "Err"
            THEN [res |-> Err("ProjectLoadError"), analyzer |-> a]
            ELSE [res |-> Ok(<<>>),
                  analyzer |-> [host |-> loaded.val.db, vfs |-> a.vfs]]

\* analyzer.rs:109-145  Analyzer::load_project: the result and the analyzer
\* after the call
LoadProject(a, path) ==
    IF PathKind(path) = "missing"
    THEN [res |-> Err("ManifestNotFound"), analyzer |-> a]
    ELSE IF PathKind(path) = "non_utf8"
    THEN [res |-> Err("ManifestNotFound"), analyzer |-> a]
    ELSE LET loaded == load_workspace_at(path)
         IN IF loaded.tag = "Err"
            THEN [res |-> Err("ProjectLoadError"), analyzer |-> a]
            ELSE [res |-> Ok(<<>>),
                  analyzer |-> [host |-> loaded.val.db, vfs |-> loaded.val.vfs]]

-----------------------------------------------------------------------------
(* A bounded family of loaded sessions (SpecSearch): the symbol index is a  *)
(* block of SearchLimit equal-named symbols, or none, followed by up to     *)
(* MaxTail symbols of the pool; symbol i is declared on line i - 1 of its   *)
(* file.                                                                     *)

Template(name, kind, lib, file_id) ==
    [name |-> name, kind |-> kind, lib |-> lib, file_id |-> file_id]

Pool ==
    { Template(Analyzer_, "Struct", FALSE, 1),
      Template(Analyzer_, "Function", FALSE, 1),
      Template(Analyzer_, "Impl", FALSE, 1),
      Template(Analyzer_, "Union", FALSE, 1),
      Template(AnalyzerError_, "Enum", FALSE, 1),
      Template(Analyzer_, "Struct", TRUE, 2),
      Template(Analyzer_, "Macro", TRUE, 2),
      Template(Analyzer_, "None", FALSE, 3) }

Tails == UNION {[1..k -> Pool] : k \in 0..MaxTail}

Block(tpl) == [i \in 1..SearchLimit |-> tpl]

Blocks == { <<>>,
            Block(Template(Analyzer_, "Function", FALSE, 1)),
            Block(Template(Analyzer_, "Struct", TRUE, 2)) }

FamilyText == [i \in 1..(SearchLimit + MaxTail) |-> 2 * i]

FamilyDb(templates, scope) ==
    [load |-> "/family", libs_scope |-> scope,
     symbols |-> [i \in 1..Len(templates) |->
                    RawSymbol(templates[i].name, templates[i].kind, templates[i].lib,
                              templates[i].file_id, <<2 * (i - 1), 2 * (i - 1) + 1>>,
                              NoDoc)],
     structure |-> << <<>>, <<>>, <<>> >>,
     text |-> << FamilyText, FamilyText, FamilyText >>]

FamilyVfs ==
    [load |-> "/family",
     files |-> << VfsFile(SourceA, FALSE), VfsFile(StdCollections, FALSE),
                  VfsFile(<<"virtual">>, TRUE) >>]

\* the analyzer after a successful load_project (analyzer.rs:141-142)
FamilySessions ==
    { [host |-> FamilyDb(b \o t, scope), vfs |-> FamilyVfs] :
          b \in Blocks, t \in Tails, scope \in LibsScopes }

-----------------------------------------------------------------------------
(* A bounded family of loaded sessions with one indexed source file          *)
(* (SpecEnum): the file is a sequence of up to MaxDecls top-level            *)
(* declarations of the pool, each followed by the nodes nested in it, as     *)
(* file_structure lists them; node i starts on line i - 1.                   *)

NodeTemplate(label, variant, kind, nested) ==
    [label |-> label, variant |-> variant, kind |-> kind, nested |-> nested]

EnumDecl ==
    << NodeTemplate(AnalyzerError_, "SymbolKind", "Enum", FALSE),
       NodeTemplate(<<"Canceled">>, "SymbolKind", "Variant", TRUE) >>

StructDecl ==
    << NodeTemplate(Analyzer_, "SymbolKind", "Struct", FALSE),
       NodeTemplate(<<"host">>, "SymbolKind", "Field", TRUE) >>

ImplDecl ==
    << NodeTemplate(<<"impl", "Analyzer">>, "SymbolKind", "Impl", FALSE),
       NodeTemplate(<<"new">>, "SymbolKind", "Function", TRUE),
       NodeTemplate(<<"load_project">>, "SymbolKind", "Method", TRUE) >>

FnDecl == << NodeTemplate(<<"convert_symbol_kind">>, "SymbolKind", "Function", FALSE) >>

MacroDecl == << NodeTemplate(<<"my_macro">>, "SymbolKind", "Macro", FALSE) >>

RegionDecl == << NodeTemplate(<<"region">>, "Region", "-", FALSE) >>

DeclPool == {EnumDecl, StructDecl, ImplDecl, FnDecl, MacroDecl, RegionDecl}

DeclLists == UNION {[1..k -> DeclPool] : k \in 0..MaxDecls}

RECURSIVE Flatten(_)
Flatten(decls) == IF decls = <<>> THEN <<>> ELSE Head(decls) \o Flatten(Tail(decls))

\* position of the declaration that encloses node i, 0 for a top-level node
ParentOf(templates, i) ==
    IF ~templates[i].nested THEN 0
    ELSE CHOOSE j \in 1..(i - 1) :
            /\ ~templates[j].nested
            /\ \A k \in (j + 1)..i : templates[k].nested

\* position of the last node of the declaration that node i opens
LastOf(templates, i) ==
    CHOOSE j \in i..Len(templates) :
        /\ \A k \in (i + 1)..j : templates[k].nested
        /\ (j = Len(templates) \/ ~templates[j + 1].nested)

FileNodes(templates) ==
    [i \in 1..Len(templates) |->
        RawNode(templates[i].label, templates[i].variant, templates[i].kind,
                <<2 * (i - 1),
                  IF templates[i].nested THEN 2 * (i - 1) + 1
                  ELSE 2 * (LastOf(templates, i) - 1) + 1>>,
                NoDoc, ParentOf(templates, i))]

FileDb(templates) ==
    [load |-> "/file", libs_scope |-> "libraries", symbols |-> <<>>,
     structure |-> << FileNodes(templates) >>,
     text |-> << [i \in 1..Len(templates) |-> 2 * i] >>]

FileVfs == [load |-> "/file", files |-> << VfsFile(SourceA, FALSE) >>]

\* the analyzer after a successful load_project (analyzer.rs:141-142)
FileSessions ==
    { [host |-> FileDb(Flatten(decls)), vfs |-> FileVfs] : decls \in DeclLists }

-----------------------------------------------------------------------------
(* Inputs *)

QueryNames == {Analyzer_, HashMap_}

EngAnswers ==
    [search_canceled : BOOLEAN, text_canceled : BOOLEAN, structure_canceled : BOOLEAN]

NoEng == [search_canceled |-> FALSE, text_canceled |-> FALSE, structure_canceled |-> FALSE]

FindEng == {e \in EngAnswers : ~e.structure_canceled}

EnumEng == {e \in EngAnswers : ~e.search_canceled}

DefaultOptions == [mode |-> "Fuzzy", include_library |-> FALSE, filter |-> "All"]

FilePaths ==
    { SourceA, SourceB, StdCollections,
      <<"/", "projA", "src", "unindexed.rs">>,
      <<"src", "analyzer.rs">>,
      <<>> }

NoCall ==
    [op |-> "none", path |-> "-", file_path |-> <<>>, name |-> <<>>,
     options |-> DefaultOptions, eng |-> NoEng, result |-> Ok(<<>>),
     before |-> NewAnalyzer, requests |-> Requests(0, 0, 0)]

-----------------------------------------------------------------------------
(* SpecFacade: a sequential caller of one Analyzer *)

FLoadProject(path) ==
    LET r == LoadProject(analyzer, path)
    IN /\ analyzer' = r.analyzer
       /\ lastCall' = [NoCall EXCEPT !.op = "load_project", !.path = path,
                                     !.result = r.res, !.before = analyzer]
       /\ UNCHANGED serverVars

FFindSymbol(name, options, eng) ==
    /\ \E result \in {FindSymbol(analyzer, name, options, eng)} :
          lastCall' = [NoCall EXCEPT !.op = "find_symbol", !.name = name,
                                    !.options = options, !.eng = eng,
                                    !.result = result, !.before = analyzer,
                                    !.requests = FindSymbolRequests(eng, result)]
    /\ UNCHANGED <<analyzer, serverVars>>

FEnumerateFile(file_path, eng) ==
    /\ lastCall' = [NoCall EXCEPT !.op = "enumerate_file", !.file_path = file_path,
                                  !.eng = eng,
                                  !.result = EnumerateFile(analyzer, file_path, eng),
                                  !.before = analyzer,
                                  !.requests = EnumerateFileRequests(analyzer, file_path, eng)]
    /\ UNCHANGED <<analyzer, serverVars>>

ServerIdle ==
    /\ mainPc = "off"
    /\ mutex = [owner |-> 0, poisoned |-> FALSE]
    /\ pc = [t \in 1..NumTasks |-> "idle"]
    /\ req = [t \in 1..NumTasks |-> "-"]
    /\ resp = [t \in 1..NumTasks |-> "-"]
    /\ touched = [t \in 1..NumTasks |-> "-"]

InitFacade ==
    /\ analyzer = NewAnalyzer
    /\ lastCall = NoCall
    /\ ServerIdle

NextFacade ==
    \/ \E path \in DiskPaths : FLoadProject(path)
    \/ \E name \in QueryNames, options \in SearchOptions, eng \in FindEng :
          FFindSymbol(name, options, eng)
    \/ \E file_path \in FilePaths, eng \in EnumEng : FEnumerateFile(file_path, eng)

SpecFacade == InitFacade /\ [][NextFacade]_vars

-----------------------------------------------------------------------------
(* SpecSearch: find_symbol applied to a loaded session of the family *)

SearchOnce(options, eng) ==
    /\ lastCall.op = "none"
    /\ FFindSymbol(Analyzer_, options, eng)

InitSearch ==
    /\ analyzer \in FamilySessions
    /\ lastCall = NoCall
    /\ ServerIdle

NextSearch == \E options \in SearchOptions, eng \in FindEng : SearchOnce(options, eng)

SpecSearch == InitSearch /\ [][NextSearch]_vars

-----------------------------------------------------------------------------
(* SpecEnum: enumerate_file applied to a loaded session of the file family *)

EnumFilePaths == {SourceA, <<"/", "projA", "src", "unindexed.rs">>}

EnumerateOnce(file_path, eng) ==
    /\ lastCall.op = "none"
    /\ FEnumerateFile(file_path, eng)

InitEnum ==
    /\ analyzer \in FileSessions
    /\ lastCall = NoCall
    /\ ServerIdle

NextEnum == \E file_path \in EnumFilePaths, eng \in EnumEng : EnumerateOnce(file_path, eng)

SpecEnum == InitEnum /\ [][NextEnum]_vars

-----------------------------------------------------------------------------
(* Tool Protocol Server: main.rs:44-189 *)

Tasks == 1..NumTasks

ModeArgs == {NoArg, "exact", "fuzzy", "prefix", "Exact"}

FilterArgs == {NoArg, "types", "implementations", "functions", "all", "type"}

\* the include_library values the server's requests carry
IncludeLibraryArgs == {"true"}

\* ParseMode whose default arm falls back to Fuzzy instead of returning
ParseModeLenient(mode) ==
    CASE mode = "exact"  -> "Exact"
      [] mode = "prefix" -> "Prefix"
      [] OTHER           -> "Fuzzy"

\* main.rs:83-94: the search mode of the mode string, "Invalid" for the
\* early return with a client error
ParseMode(mode) ==
    CASE mode = "exact"  -> "Exact"
      [] mode = "prefix" -> "Prefix"
      [] mode = "fuzzy"  -> "Fuzzy"
      [] mode = NoArg    -> "Fuzzy"
      [] OTHER           -> "Invalid"

\* main.rs:97-109
ParseFilter(filter) ==
    CASE filter = "types"           -> "Types"
      [] filter = "implementations" -> "Implementations"
      [] filter = "functions"       -> "Functions"
      [] filter = "all"             -> "All"
      [] filter = NoArg             -> "All"
      [] OTHER                      -> "Invalid"

\* main.rs:112-116
BuildOptions(mode, include_library, filter) ==
    [mode |-> mode, include_library |-> (include_library = "true"), filter |-> filter]

NoReq == [tool |-> "none", name |-> <<>>, options |-> DefaultOptions, file_path |-> <<>>]

NoResp == [kind |-> "none", detail |-> "-", count |-> 0]

\* history of a task's current invocation: was a string of it invalid, has it
\* taken the lock, and behind, the tasks that were already waiting for the
\* lock when it started to wait and have not passed the lock call since
NoHist == [invalid |-> FALSE, touched |-> FALSE, behind |-> {}]

\* the tasks blocked in lock() (main.rs:119, 160)
Waiting == {u \in 1..NumTasks : pc[u] = "wait_lock"}

Response(kind, detail, count) == [kind |-> kind, detail |-> detail, count |-> count]

\* a lock that does not wait for the guard of another task
CanLockAlways(m) == TRUE

\* std::sync::Mutex::lock returns only while no other guard is alive
CanLock(m) == m.owner = 0

\* New that serves whatever load_project returned
NewIgnoringLoadError(cwd) ==
    /\ mainPc = "init"
    /\ LET r == LoadProject(analyzer, cwd)
       IN /\ analyzer' = r.analyzer
          /\ lastCall' = [NoCall EXCEPT !.op = "load_project", !.path = cwd,
                                        !.result = r.res, !.before = analyzer]
          /\ mainPc' = "serving"
    /\ UNCHANGED <<mutex, pc, req, resp, touched>>

\* main.rs:51-74  CratographerServer::new: load the working directory, run the
\* warm-up query (its result is only logged), wrap the analyzer in the mutex;
\* a failed load is returned to main (main.rs:218) and nothing is served
New(cwd) ==
    /\ mainPc = "init"
    /\ LET r == LoadProject(analyzer, cwd)
       IN /\ analyzer' = r.analyzer
          /\ lastCall' = [NoCall EXCEPT !.op = "load_project", !.path = cwd,
                                        !.result = r.res, !.before = analyzer]
          /\ mainPc' = IF r.res.tag = "Ok" THEN "serving" ELSE "aborted"
    /\ UNCHANGED <<mutex, pc, req, resp, touched>>

\* main.rs:79-116: a find_symbol invocation up to the lock; an unknown mode or
\* filter string returns the client error here
ReceiveFindSymbol(t, name, mode, include_library, filter) ==
    /\ mainPc = "serving"
    /\ pc[t] = "idle"
    /\ touched' = [touched EXCEPT ![t] =
                      [invalid |-> (mode \notin {NoArg, "exact", "fuzzy", "prefix"}
                                    \/ filter \notin {NoArg, "types", "implementations",
                                                      "functions", "all"}),
                       touched |-> FALSE,
                       behind |-> IF ParseMode(mode) = "Invalid"
                                     \/ ParseFilter(filter) = "Invalid"
                                  THEN {} ELSE Waiting]]
    /\ IF ParseMode(mode) = "Invalid"
       THEN /\ resp' = [resp EXCEPT ![t] = Response("error", "Invalid search mode", 0)]
            /\ UNCHANGED <<pc, req>>
       ELSE IF ParseFilter(filter) = "Invalid"
       THEN /\ resp' = [resp EXCEPT ![t] = Response("error", "Invalid filter", 0)]
            /\ UNCHANGED <<pc, req>>
       ELSE /\ req' = [req EXCEPT ![t] =
                          [tool |-> "find_symbol", name |-> name,
                           options |-> BuildOptions(ParseMode(mode), include_library,
                                                    ParseFilter(filter)),
                           file_path |-> <<>>]]
            /\ pc' = [pc EXCEPT ![t] = "wait_lock"]
            /\ resp' = [resp EXCEPT ![t] = NoResp]
    /\ UNCHANGED <<analyzer, lastCall, mainPc, mutex>>

\* main.rs:156-157: an enumerate_file invocation up to the lock
ReceiveEnumerateFile(t, file_path) ==
    /\ mainPc = "serving"
    /\ pc[t] = "idle"
    /\ req' = [req EXCEPT ![t] = [NoReq EXCEPT !.tool = "enumerate_file",
                                               !.file_path = file_path]]
    /\ pc' = [pc EXCEPT ![t] = "wait_lock"]
    /\ resp' = [resp EXCEPT ![t] = NoResp]
    /\ touched' = [touched EXCEPT ![t] = [NoHist EXCEPT !.behind = Waiting]]
    /\ UNCHANGED <<analyzer, lastCall, mainPc, mutex>>

\* main.rs:119, 160  self.analyzer.lock().unwrap(): blocks while another guard
\* is alive; on a poisoned mutex lock() returns Err and unwrap panics
Lock(t) ==
    /\ pc[t] = "wait_lock"
    /\ CanLock(mutex)
    /\ IF mutex.poisoned
       THEN /\ pc' = [pc EXCEPT ![t] = "idle"]
            /\ req' = [req EXCEPT ![t] = NoReq]
            /\ resp' = [resp EXCEPT ![t] = Response("panic", "PoisonError", 0)]
            /\ touched' = [u \in Tasks |->
                              [touched[u] EXCEPT !.behind = @ \ {t}]]
            /\ UNCHANGED mutex
       ELSE /\ pc' = [pc EXCEPT ![t] = "locked"]
            /\ mutex' = [mutex EXCEPT !.owner = t]
            /\ touched' = [u \in Tasks |->
                              [touched[u] EXCEPT !.behind = @ \ {t},
                                                 !.touched = (u = t) \/ @]]
            /\ UNCHANGED <<req, resp>>
    /\ UNCHANGED <<analyzer, lastCall, mainPc>>

\* the facade call of a tool invocation (main.rs:120, 161)
FacadeCall(a, r, eng) ==
    IF r.tool = "find_symbol" THEN FindSymbol(a, r.name, r.options, eng)
    ELSE EnumerateFile(a, r.file_path, eng)

\* main.rs:121-151, 162-187: the response of a tool invocation
ToolResponse(r, result) ==
    CASE result.tag = "Ok"  -> Response("success", "-", Len(result.val))
      [] result.tag = "Err" ->
            Response("error",
                     IF r.tool = "find_symbol" THEN "Search failed"
                     ELSE "Failed to enumerate file", 0)
      [] OTHER              -> Response("panic", result.err, 0)

\* Run that resets the session when the facade call fails
RunDroppingSession(t, eng) ==
    /\ pc[t] = "locked"
    /\ eng \in (IF req[t].tool = "find_symbol" THEN FindEng ELSE EnumEng)
    /\ LET result == FacadeCall(analyzer, req[t], eng)
       IN /\ resp' = [resp EXCEPT ![t] = ToolResponse(req[t], result)]
          /\ mutex' = [owner |-> 0,
                       poisoned |-> (mutex.poisoned \/ result.tag = "Panic")]
          /\ analyzer' = IF result.tag = "Ok" THEN analyzer ELSE NewAnalyzer
    /\ pc' = [pc EXCEPT ![t] = "idle"]
    /\ req' = [req EXCEPT ![t] = NoReq]
    /\ UNCHANGED <<lastCall, mainPc, touched>>

\* main.rs:120-152, 161-188: the critical section and the drop of the guard on
\* return; a panic under the guard poisons the mutex
Run(t, eng) ==
    /\ pc[t] = "locked"
    /\ eng \in (IF req[t].tool = "find_symbol" THEN FindEng ELSE EnumEng)
    /\ LET result == FacadeCall(analyzer, req[t], eng)
       IN /\ resp' = [resp EXCEPT ![t] = ToolResponse(req[t], result)]
          /\ mutex' = [owner |-> 0,
                       poisoned |-> (mutex.poisoned \/ result.tag = "Panic")]
    /\ pc' = [pc EXCEPT ![t] = "idle"]
    /\ req' = [req EXCEPT ![t] = NoReq]
    /\ UNCHANGED <<analyzer, lastCall, mainPc, touched>>

\* what the working directory of the process can be
ServerCwds == DiskPaths \ {"/projB"}

ServerFilePaths == {SourceA, <<"/", "projA", "src", "unindexed.rs">>, <<"src", "analyzer.rs">>}

Init ==
    /\ analyzer = NewAnalyzer
    /\ lastCall = NoCall
    /\ mainPc = "init"
    /\ mutex = [owner |-> 0, poisoned |-> FALSE]
    /\ pc = [t \in Tasks |-> "idle"]
    /\ req = [t \in Tasks |-> NoReq]
    /\ resp = [t \in Tasks |-> NoResp]
    /\ touched = [t \in Tasks |-> NoHist]

Next ==
    \/ \E cwd \in ServerCwds : New(cwd)
    \/ \E t \in Tasks, mode \in ModeArgs, lib \in IncludeLibraryArgs, filter \in FilterArgs :
          ReceiveFindSymbol(t, Analyzer_, mode, lib, filter)
    \/ \E t \in Tasks, file_path \in ServerFilePaths : ReceiveEnumerateFile(t, file_path)
    \/ \E t \in Tasks : Lock(t)
    \/ \E t \in Tasks, eng \in EngAnswers : Run(t, eng)

Spec == Init /\ [][Next]_vars

-----------------------------------------------------------------------------
(* Properties *)

Locked == {t \in Tasks : pc[t] = "locked"}

\* C1: at most one tool invocation is inside the critical section at any
\* moment, and a task that is inside it owns the session mutex.
C1_MutualExclusion ==
    /\ Cardinality(Locked) <= 1
    /\ \A t \in Locked : mutex.owner = t

\* one invocation holds the lock while another one waits for it
C1_Witness ==
    \E t, u \in Tasks : /\ pc[t] = "locked"
                        /\ pc[u] = "wait_lock"
                        /\ req[t].tool = "find_symbol"
                        /\ req[u].tool = "enumerate_file"

\* C2: after any invocation has ended, whatever its exit path, a later
\* invocation can acquire the lock and complete: no invocation ends at the
\* lock call.
C2_LaterCallsAcquireLock ==
    \A t \in Tasks : ~(resp[t].kind = "panic" /\ resp[t].detail = "PoisonError")

\* C3: a find_symbol request with an unknown mode or filter string is answered
\* with the client error without waiting for the lock, taking it, or reaching
\* the session.
C3_InvalidRejectedBeforeLock ==
    \A t \in Tasks :
        touched[t].invalid =>
            /\ pc[t] = "idle"
            /\ ~touched[t].touched
            /\ mutex.owner # t
            /\ resp[t].kind = "error"
            /\ resp[t].detail \in {"Invalid search mode", "Invalid filter"}

\* a request with an unknown string was rejected while another task held the lock
C3_Witness ==
    \E t, u \in Tasks : /\ touched[t].invalid
                        /\ resp[t].detail = "Invalid filter"
                        /\ pc[u] = "locked"

\* C4: a failed load_project leaves the database and the path table of the
\* previously active session as they were.
C4_FailedLoadKeepsSession ==
    (lastCall.op = "load_project" /\ lastCall.result.tag = "Err") =>
        /\ analyzer.host = lastCall.before.host
        /\ analyzer.vfs = lastCall.before.vfs

\* a load failed in the loader while a loaded project was active
C4_Witness ==
    /\ lastCall.op = "load_project"
    /\ lastCall.result = Err("ProjectLoadError")
    /\ lastCall.before.host.load = "/projA"
    /\ analyzer.vfs.load = "/projA"

\* C5: load_project on a path at which no manifest is discoverable, missing or
\* existing without a manifest, returns ManifestNotFound.
C5_NoManifestIsManifestNotFound ==
    (lastCall.op = "load_project" /\ PathKind(lastCall.path) \in {"missing", "no_manifest"}) =>
        lastCall.result = Err("ManifestNotFound")

Queries == {"find_symbol", "enumerate_file"}

\* C6: the database and the path table of the session always come from the same
\* load, in every state and in the session every query ran against.
C6_SessionOfOneLoad ==
    /\ analyzer.host.load = analyzer.vfs.load
    /\ lastCall.op \in Queries => lastCall.before.host.load = lastCall.before.vfs.load

\* a query ran against a session that replaced an earlier one
C6_Witness ==
    /\ lastCall.op = "find_symbol"
    /\ lastCall.result.tag = "Ok"
    /\ lastCall.before.host.load = "/projB"
    /\ lastCall.before.vfs.load = "/projB"
    /\ \E e \in Range(lastCall.result.val) : e.file_path = SourceB

\* C7: enumerate_file on a path that is not indexed in the session, absolute or
\* not, returns the Other "file not found" error.
C7_UnindexedIsFileNotFound ==
    (lastCall.op = "enumerate_file" /\ VfsFileId(lastCall.before.vfs, lastCall.file_path) = 0) =>
        lastCall.result = Err("Other(File not found in VFS)")

FilterKinds(filter) ==
    CASE filter = "Functions"       -> {"Function", "Method"}
      [] filter = "Implementations" -> {"Impl"}
      [] filter = "Types"           -> {"Struct", "Enum", "Trait", "TypeAlias"}
      [] filter = "All"             -> SymbolKind

\* C8: every entry find_symbol returns has a kind the requested filter allows.
C8_KindsWithinFilter ==
    (lastCall.op = "find_symbol" /\ lastCall.result.tag = "Ok") =>
        \A e \in Range(lastCall.result.val) : e.kind \in FilterKinds(lastCall.options.filter)

\* a Functions search kept an entry while the engine's answer also held a
\* matching symbol of another kind
C8_Witness ==
    /\ lastCall.op = "find_symbol"
    /\ lastCall.options.filter = "Functions"
    /\ lastCall.result.tag = "Ok"
    /\ lastCall.result.val # <<>>
    /\ \E nav \in Range(symbol_search(analyzer.host,
                                      BuildQuery(lastCall.name, lastCall.options),
                                      SearchLimit)) : nav.kind = "Struct"

WithFilter(options, filter) == [options EXCEPT !.filter = filter]

WithLibrary(options, lib) == [options EXCEPT !.include_library = lib]

FindAgain(options) == FindSymbol(analyzer, lastCall.name, options, lastCall.eng)

MatchCount(db, name, options) == Len(Matches(db, BuildQuery(name, options)))

FoundOk == lastCall.op = "find_symbol" /\ lastCall.result.tag = "Ok"

\* C9 as stated: what find_symbol returns under any filter is contained in
\* what it returns under filter All for the same session, name, mode,
\* include_library and engine answers, also beyond the result limit.
C9_AllIsSuperset ==
    FoundOk =>
        Range(lastCall.result.val) \subseteq
            Range(FindAgain(WithFilter(lastCall.options, "All")).val)

\* C9 amended: the result under Implementations or Functions is always
\* contained in the result under All; the result under Types is contained in
\* it when the engine has at most SearchLimit matches for the All query.
C9_AllIsSupersetWithinLimit ==
    (FoundOk /\ (lastCall.options.filter # "Types"
                 \/ MatchCount(analyzer.host, lastCall.name,
                               WithFilter(lastCall.options, "All")) <= SearchLimit)) =>
        Range(lastCall.result.val) \subseteq
            Range(FindAgain(WithFilter(lastCall.options, "All")).val)

\* a Functions search kept entries although the engine had more matches than
\* the limit
C9_Witness ==
    /\ FoundOk
    /\ lastCall.options.filter = "Functions"
    /\ lastCall.result.val # <<>>
    /\ MatchCount(analyzer.host, lastCall.name, lastCall.options) > SearchLimit

HasLibrarySymbol(db, mode, name) ==
    \E sym \in Range(db.symbols) : sym.lib /\ NameMatches(mode, name, sym.name)

LibrarySymbolKept(db, name, options) ==
    \E sym \in Range(db.symbols) :
        /\ sym.lib
        /\ NameMatches(options.mode, name, sym.name)
        /\ sym.kind \in FilterKinds(options.filter)

WithMode(options, mode) == [options EXCEPT !.mode = mode]

Names(entries) == {e.name : e \in Range(entries)}

\* the kind find_symbol gives a symbol of the index, <<>> when it drops it
KindOf(sym) == convert_symbol_kind(UnwrapOrModule(sym.kind))

\* C11 as stated: an Exact search returns only entries named exactly as the
\* query, and a Prefix search returns every in-scope symbol whose name starts
\* with the query.
C11_ExactAndPrefix ==
    FoundOk =>
        /\ lastCall.options.mode = "Exact" =>
              \A e \in Range(lastCall.result.val) : e.name = lastCall.name
        /\ lastCall.options.mode = "Prefix" =>
              \A sym \in Range(analyzer.host.symbols) :
                  (/\ InScope(analyzer.host, BuildQuery(lastCall.name, lastCall.options), sym)
                   /\ IsPrefix(lastCall.name, sym.name)) =>
                      sym.name \in Names(lastCall.result.val)

\* C11 amended: an Exact search returns only entries named exactly as the
\* query; a Prefix search whose engine query has at most SearchLimit matches
\* returns, with its name and kind, every in-scope symbol whose name starts
\* with the query and whose kind is of the closed taxonomy and passes the
\* filter.
C11_ExactAndPrefixWithinLimit ==
    FoundOk =>
        /\ lastCall.options.mode = "Exact" =>
              \A e \in Range(lastCall.result.val) : e.name = lastCall.name
        /\ (lastCall.options.mode = "Prefix"
               /\ MatchCount(analyzer.host, lastCall.name, lastCall.options) <= SearchLimit) =>
              \A sym \in Range(analyzer.host.symbols) :
                  (/\ InScope(analyzer.host, BuildQuery(lastCall.name, lastCall.options), sym)
                   /\ IsPrefix(lastCall.name, sym.name)
                   /\ KindOf(sym) # <<>>
                   /\ KindOf(sym)[1] \in FilterKinds(lastCall.options.filter)) =>
                      \E e \in Range(lastCall.result.val) :
                          e.name = sym.name /\ e.kind = KindOf(sym)[1]

\* a Prefix search returned entries named Analyzer and AnalyzerError where the
\* Exact search for the same name returns entries, all of them named Analyzer
C11_Witness ==
    /\ FoundOk
    /\ lastCall.options.mode = "Prefix"
    /\ {Analyzer_, AnalyzerError_} \subseteq Names(lastCall.result.val)
    /\ Names(FindAgain(WithMode(lastCall.options, "Exact")).val) = {Analyzer_}

EnumOk == lastCall.op = "enumerate_file" /\ lastCall.result.tag = "Ok"

\* the structure nodes and the text of the file the last enumerate_file read
NodesOf(call) == call.before.host.structure[VfsFileId(call.before.vfs, call.file_path)]

TextOf(call) == FileText(call.before.host, VfsFileId(call.before.vfs, call.file_path))

\* a structure node whose native kind is of the recognized set
Recognized(node) == node.variant = "SymbolKind" /\ convert_symbol_kind(node.kind) # <<>>

RecognizedAt(nodes) == {i \in 1..Len(nodes) : Recognized(nodes[i])}

\* C12 as stated: enumerate_file returns as many entries as the file has
\* top-level declarations of recognized kinds.
C12_OneEntryPerTopLevelDecl ==
    EnumOk =>
        Len(lastCall.result.val) =
            Cardinality({i \in RecognizedAt(NodesOf(lastCall)) : NodesOf(lastCall)[i].parent = 0})

\* C12 amended: enumerate_file returns as many entries as the engine's
\* structure of the file has nodes of recognized kinds, top-level or nested.
C12_OneEntryPerRecognizedNode ==
    EnumOk => Len(lastCall.result.val) = Cardinality(RecognizedAt(NodesOf(lastCall)))

\* a file that declares one enum with a variant gave exactly one entry, of
\* kind Enum
C12_Witness ==
    /\ EnumOk
    /\ Len(NodesOf(lastCall)) = 2
    /\ NodesOf(lastCall)[2].kind = "Variant"
    /\ NodesOf(lastCall)[2].parent = 1
    /\ Len(lastCall.result.val) = 1
    /\ lastCall.result.val[1].kind = "Enum"
    /\ lastCall.result.val[1].name = AnalyzerError_

\* the entry of node n is at position i of the result
EntryOf(call, i, n) ==
    /\ call.result.val[i].name = NodesOf(call)[n].label
    /\ call.result.val[i].start_line = LineOf(TextOf(call), NodesOf(call)[n].node_range[1])

\* C13: of any two structure nodes of recognized kinds, the entry of the one
\* declared earlier comes earlier in the result of enumerate_file.
C13_DeclarationOrder ==
    EnumOk =>
        \A a, b \in RecognizedAt(NodesOf(lastCall)) :
            a < b => \E i, j \in 1..Len(lastCall.result.val) :
                        i < j /\ EntryOf(lastCall, i, a) /\ EntryOf(lastCall, j, b)

\* a function was returned before an enum declared after it, with a dropped
\* node between them
C13_Witness ==
    /\ EnumOk
    /\ \E a, m, b \in 1..Len(NodesOf(lastCall)) :
          /\ a < m /\ m < b
          /\ NodesOf(lastCall)[a].kind = "Function"
          /\ ~Recognized(NodesOf(lastCall)[m])
          /\ NodesOf(lastCall)[b].kind = "Enum"
          /\ \E i, j \in 1..Len(lastCall.result.val) :
                i < j /\ EntryOf(lastCall, i, a) /\ EntryOf(lastCall, j, b)

\* C14: a call whose search or file-structure request the engine cancels
\* returns Canceled and sends nothing to the engine after that request; no
\* call sends symbol_search or file_structure twice, and enumerate_file reads
\* the file's text at most once.
C14_CanceledWithoutRetry ==
    /\ lastCall.requests.symbol_search <= 1
    /\ lastCall.requests.file_structure <= 1
    /\ (lastCall.op = "find_symbol" /\ lastCall.eng.search_canceled) =>
          /\ lastCall.result = Err("Canceled")
          /\ lastCall.requests = Requests(1, 0, 0)
    /\ lastCall.op = "enumerate_file" =>
          /\ lastCall.requests.file_text <= 1
          /\ (lastCall.eng.structure_canceled /\ lastCall.requests.file_structure = 1) =>
                /\ lastCall.result = Err("Canceled")
                /\ lastCall.requests = Requests(0, 1, 0)

\* the engine cancelled the search of a loaded project and the call returned
\* Canceled after that one request
C14_Witness ==
    /\ lastCall.op = "find_symbol"
    /\ lastCall.eng.search_canceled
    /\ lastCall.before.host.load = "/projA"
    /\ lastCall.result = Err("Canceled")
    /\ lastCall.requests.symbol_search = 1

\* the engine's answer to the search of the last find_symbol
NavsOf(call) ==
    symbol_search(call.before.host, BuildQuery(call.name, call.options), SearchLimit)

\* entry e is the entry of the search result nav
EntryOfNav(call, e, nav) ==
    /\ e.name = nav.name
    /\ e.file_path = PathStr(call.before.vfs, nav.file_id)
    /\ e.start_line = LineOf(FileText(call.before.host, nav.file_id), nav.full_range[1])

\* C15: find_symbol and enumerate_file apply one kind policy: an engine entry
\* whose native kind is absent or outside the recognized set has no entry in
\* the result of either, and an entry of a recognized native kind has the
\* kind convert_symbol_kind gives it in both.
C15_OneKindPolicy ==
    /\ (FoundOk /\ ~lastCall.eng.text_canceled) =>
          \A nav \in Range(NavsOf(lastCall)) :
              IF nav.kind = "None" \/ convert_symbol_kind(nav.kind) = <<>>
              THEN ~\E e \in Range(lastCall.result.val) : EntryOfNav(lastCall, e, nav)
              ELSE \A e \in Range(lastCall.result.val) :
                      EntryOfNav(lastCall, e, nav) => e.kind = convert_symbol_kind(nav.kind)[1]
    /\ EnumOk =>
          \A n \in 1..Len(NodesOf(lastCall)) :
              IF ~Recognized(NodesOf(lastCall)[n])
              THEN ~\E i \in 1..Len(lastCall.result.val) : EntryOf(lastCall, i, n)
              ELSE \E i \in 1..Len(lastCall.result.val) :
                      /\ EntryOf(lastCall, i, n)
                      /\ lastCall.result.val[i].kind =
                            convert_symbol_kind(NodesOf(lastCall)[n].kind)[1]

\* C16: after a failed initial load_project the process has aborted and no
\* task has received, run or answered an invocation; an invocation is only
\* ever handled by a serving process whose session is a loaded project.
C16_FailedLoadNeverServes ==
    /\ (lastCall.op = "load_project" /\ lastCall.result.tag = "Err") =>
          /\ mainPc = "aborted"
          /\ \A t \in Tasks : pc[t] = "idle" /\ req[t] = NoReq /\ resp[t] = NoResp
    /\ (\E t \in Tasks : pc[t] # "idle" \/ resp[t] # NoResp) =>
          /\ mainPc = "serving"
          /\ analyzer.host.load # "none"
          /\ analyzer.vfs.load = analyzer.host.load

\* the workspace of the working directory did not load and the process aborted
C16_Witness ==
    /\ mainPc = "aborted"
    /\ lastCall.result = Err("ProjectLoadError")
    /\ analyzer = NewAnalyzer

\* C17: an invocation enters its critical section only when no invocation
\* that started waiting for the lock before it is still waiting.
C17_ArrivalOrder ==
    \A t \in Tasks : pc[t] = "locked" => touched[t].behind = {}

KeptNavs(call) ==
    {i \in 1..Len(NavsOf(call)) :
        /\ KindOf(NavsOf(call)[i]) # <<>>
        /\ PassesFilter(call.options.filter, KindOf(NavsOf(call)[i])[1])}

\* the path table has no real path for the file
Unresolvable(vfs, file_id) == vfs.files[file_id].virtual

\* C18: find_symbol returns Ok with one entry for every search result whose
\* kind it keeps, also when the entry's path or text is not available: the
\* file_path of an entry whose file has no path in the path table is the
\* debug-formatted file identifier, and the lines of every entry are (0, 0)
\* when the text is not retrieved.
C18_PerEntryFallbacks ==
    (lastCall.op = "find_symbol" /\ ~lastCall.eng.search_canceled) =>
        /\ lastCall.result.tag = "Ok"
        /\ Len(lastCall.result.val) = Cardinality(KeptNavs(lastCall))
        /\ \A i \in KeptNavs(lastCall) :
              LET nav == NavsOf(lastCall)[i]
              IN \E e \in Range(lastCall.result.val) :
                    /\ e.name = nav.name
                    /\ e.kind = KindOf(nav)[1]
                    /\ Unresolvable(lastCall.before.vfs, nav.file_id) =>
                          e.file_path = <<"FileId(", ToString(nav.file_id), ")">>
                    /\ ~Unresolvable(lastCall.before.vfs, nav.file_id) =>
                          e.file_path = lastCall.before.vfs.files[nav.file_id].path
                    /\ lastCall.eng.text_canceled => (e.start_line = 0 /\ e.end_line = 0)

\* the text was not retrieved and the file has no path: the entry of a symbol
\* declared on line 1 was returned with the file identifier and lines (0, 0)
C18_Witness ==
    /\ FoundOk
    /\ lastCall.eng.text_canceled
    /\ \E i \in KeptNavs(lastCall) :
          /\ Unresolvable(lastCall.before.vfs, NavsOf(lastCall)[i].file_id)
          /\ LineOf(FileText(lastCall.before.host, NavsOf(lastCall)[i].file_id),
                    NavsOf(lastCall)[i].full_range[1]) = 1
    /\ \E e \in Range(lastCall.result.val) :
          /\ e.file_path = <<"FileId(", "3", ")">>
          /\ e.start_line = 0
          /\ e.end_line = 0

====
